---- MODULE Spec2Model ----
(***************************************************************************)
(* State-machine model of threads-tracker.                                 *)
(*                                                                         *)
(*   SpecChunk       AllocatedTimeChunk (timemap/time.py): allocation of a *)
(*                   chunk to a task under a key.                          *)
(*   SpecImportance  the importance of a task object, through the          *)
(*                   constructors, from_json and the setter.               *)
(*   SpecTask        times, completion and is_done of a task object under  *)
(*                   an advancing clock.                                   *)
(*   SpecOccurrence  appointments of an Event and deadlines of an          *)
(*                   Assignment (threads/task.py).                         *)
(*   SpecThread      Thread (threads/thread.py): add_task, the unions |    *)
(*                   and |=, from_json, on two thread variables.           *)
(*   SpecCodec       Thread.from_json(thread.to_json()).                   *)
(*   SpecManager     TaskManager (managers.py): save_state, load_state and *)
(*                   refresh_state over memory and the thread files.       *)
(*   SpecFile        one thread file under the two file writers of         *)
(*                   save_state, statement by statement, with crashes.     *)
(*   SpecRace        two managers running _append_to_thread_file on one    *)
(*                   past file at the same time.                           *)
(*                                                                         *)
(* The task module exists in three snapshots (task.py, thread/task.py,     *)
(* threads/task.py); a task object carries the snapshot it belongs to.     *)
(*                                                                         *)
(* Conventions                                                             *)
(*   - Python's None is the integer None (-1) for every optional instant,  *)
(*     duration and key; instants and durations are naturals.              *)
(*   - `last` is a history variable: the operation that produced the       *)
(*     current state, its arguments, its outcome ("ok" or the exception    *)
(*     raised) and the values it found.                                    *)
(***************************************************************************)
EXTENDS Integers, Sequences, FiniteSets, TLC

VARIABLES chunk, firstKey, task, now, last,
          objs, threads, past, future, file, writers

vars ==
    <<chunk, firstKey, task, now, last, objs, threads, past, future, file,
      writers>>

\* The thread objects, the manager's collection and the backing store.
storeVars == <<objs, threads, past, future, file, writers>>

\* ------------------------------------------------------------------ bounds
NumTasks == 3
NumKeys == 4

None == -1
TaskIds == 1 .. NumTasks
Keys == 1 .. NumKeys

\* ------------------------------------------------- AllocatedTimeChunk
\* AllocatedTimeChunk.__init__: no task allocated, no key.
AllocatedTimeChunk_init == [task_allocated |-> None, key |-> None]

\* AllocatedTimeChunk.set_task_assigned: raises KeyError when a key is held
\* and differs from the presented one; otherwise stores the task.  The key
\* attribute is not assigned.
set_task_assigned(c, task_allocated, key) ==
    IF c.key # None /\ c.key # key
    THEN [result |-> "KeyError", chunk |-> c]
    ELSE [result |-> "ok",
          chunk  |-> [c EXCEPT !.task_allocated = task_allocated]]

\* AllocatedTimeChunk.get_task_assigned
get_task_assigned(c) == c.task_allocated

\* ------------------------------------------------------------ Task model
\* The repository holds three snapshots of the task module; a task object
\* carries the snapshot it is an instance of:
\*   "task"    src/src/task.py
\*   "thread"  src/src/thread/task.py
\*   "threads" src/src/threads/task.py
\* Fields
\*   start_time, end_time   None or an instant.  In "threads" a
\*                          RepeatableTask keeps them in its repeat object
\*                          when repeating and in _start_time/_end_time
\*                          otherwise; the repeat flag never changes, so one
\*                          pair of fields is the storage of both cases.
\*   importance             _importance ("thread", "threads"), importance
\*   completed              "threads" only
\*   repeat, period         bool(self.repeat) and self.repeat.period
\*   occurrences            <<>> when the list attribute is None or absent,
\*                          <<l>> when it is the list l (appointments of an
\*                          Event, deadlines of an Assignment)
\*   deadline               Assignment of "task" and "thread"
\*   expected_duration      Assignment
MaxTime == 3
MaxPeriod == 2
DefaultImportance == 5
MaxImportance == 10
DefaultDuration == 15

Times == 0 .. MaxTime
OptTimes == Times \cup {None}
Impls == {"task", "thread", "threads"}
Kinds == {"Task", "Event", "Assignment"}

\* No task object has been constructed yet.
NoTask == [impl |-> "none"]

NoList == <<>>
SomeList(l) == <<l>>

\* TimeChunk.__init__ with the default duration.
TimeChunk(start_time) == [start_time |-> start_time, duration |-> DefaultDuration]

Ok(t) == [result |-> "ok", task |-> t, warnings |-> 0]
Raise(exc, t) == [result |-> exc, task |-> t, warnings |-> 0]

\* Task.change_time ("thread", "threads") and Task.set_time ("task").
change_time_unchecked(t, new_start_time, new_end_time) ==
    LET e == IF new_end_time # None THEN new_end_time
             ELSE IF t.end_time # None
                  THEN new_start_time + (t.end_time - t.start_time)
                  ELSE None
    IN Ok([t EXCEPT !.start_time = new_start_time, !.end_time = e])

\* change_time that leaves the end time alone when none is given.
change_time_keeping_end(t, new_start_time, new_end_time) ==
    IF new_end_time # None /\ new_start_time > new_end_time
    THEN Raise("Exception: Invalid time range for task. ", t)
    ELSE Ok([t EXCEPT !.start_time = new_start_time,
                      !.end_time = IF new_end_time # None THEN new_end_time
                                   ELSE t.end_time])

Task_change_time(t, new_start_time, new_end_time) ==
    IF new_end_time # None /\ new_start_time > new_end_time
    THEN Raise("Exception: Invalid time range for task. ", t)
    ELSE LET e == IF new_end_time # None THEN new_end_time
                  ELSE IF t.end_time # None
                       THEN new_start_time + (t.end_time - t.start_time)
                       ELSE None
         IN Ok([t EXCEPT !.start_time = new_start_time, !.end_time = e])

\* Assignment.change_time of "thread": the base change, then the expected
\* duration is recomputed and the deadline warning printed.  None in the
\* arithmetic or the comparison raises TypeError after the times are set.
Assignment_change_time(t, new_start_time, new_end_time) ==
    LET r == Task_change_time(t, new_start_time, new_end_time) IN
    IF r.result # "ok" THEN r
    ELSE LET u == r.task
             d == IF u.end_time # None THEN u.end_time - u.start_time
                  ELSE u.expected_duration
             v == [u EXCEPT !.expected_duration = d]
         IN IF d = None \/ v.deadline = None THEN Raise("TypeError", v)
            ELSE [result |-> "ok", task |-> v,
                  warnings |-> IF v.start_time + d > v.deadline THEN 1 ELSE 0]

\* Assignment.set_time of "task": calls super().change_time, which the
\* Task of that snapshot does not define (its method is set_time).
Assignment_set_time(t, new_start_time, new_end_time) ==
    Raise("AttributeError", t)

\* The time-change method of an object, by snapshot and class.
change_time(t, new_start_time, new_end_time) ==
    IF t.kind = "Assignment" /\ t.impl = "thread"
    THEN Assignment_change_time(t, new_start_time, new_end_time)
    ELSE IF t.kind = "Assignment" /\ t.impl = "task"
    THEN Assignment_set_time(t, new_start_time, new_end_time)
    ELSE Task_change_time(t, new_start_time, new_end_time)

\* The fields every constructor sets before a start time is applied.
Blank(impl, kind, importance) ==
    [impl |-> impl, kind |-> kind, start_time |-> None, end_time |-> None,
     importance |-> importance, completed |-> FALSE, repeat |-> FALSE,
     period |-> None, occurrences |-> NoList, deadline |-> None,
     expected_duration |-> None]

\* Task.__init__ of "threads" (and of "thread"): the importance argument is
\* stored as given; a start time is applied through change_time.
Task_init(impl, kind, start_time, end_time, importance, repeat, period) ==
    LET t == [Blank(impl, kind, importance) EXCEPT
                 !.repeat = repeat, !.period = period]
    IN IF start_time # None THEN Task_change_time(t, start_time, end_time)
       ELSE Ok(t)

\* Task.__init__ of "task": as above, but the method it calls for a start
\* time, change_time, does not exist in that snapshot.
Task_init_task(kind, start_time, end_time, importance) ==
    LET t == Blank("task", kind, importance)
    IN IF start_time # None THEN Raise("AttributeError", t) ELSE Ok(t)

\* Event.__init__ of "threads": RepeatableTask.__init__ then
\* _appointments = None; a repeating event's list is its EventRepeat's [].
Event_init(start_time, end_time, importance, repeat, period) ==
    LET r == Task_init("threads", "Event", start_time, end_time, importance,
                       repeat, period)
    IN IF r.result # "ok" THEN r
       ELSE Ok([r.task EXCEPT !.occurrences =
                   IF repeat THEN SomeList(<<>>) ELSE NoList])

\* Assignment.__init__ of "threads": no times; _deadlines = [] (or the
\* AssignmentRepeat's []).
Assignment_init(expected_duration, importance, repeat, period) ==
    LET r == Task_init("threads", "Assignment", None, None, importance,
                       repeat, period)
    IN Ok([r.task EXCEPT !.occurrences = SomeList(<<>>),
                         !.expected_duration = expected_duration])

\* Assignment.__init__ of "thread" and "task": no times; deadline and
\* expected duration stored.
Assignment_init_legacy(impl, deadline, expected_duration, importance) ==
    Ok([Blank(impl, "Assignment", importance) EXCEPT
           !.deadline = deadline, !.expected_duration = expected_duration])

\* importance.setter of "threads".
importance_setter(t, new_importance) ==
    IF 0 <= new_importance /\ new_importance <= MaxImportance
    THEN Ok([t EXCEPT !.importance = new_importance])
    ELSE Raise("Exception: Invalid importance for task. ", t)

\* importance.setter of "thread" and Task.set_importance of "task".
set_importance_legacy(t, new_importance) ==
    IF new_importance >= 0 /\ new_importance < MaxImportance
    THEN Ok([t EXCEPT !.importance = new_importance])
    ELSE Raise("Exception: Invalid importance for task. ", t)

set_importance(t, new_importance) ==
    IF t.impl = "threads" THEN importance_setter(t, new_importance)
    ELSE set_importance_legacy(t, new_importance)

\* Task.complete, and RepeatableTask.complete (Event, Assignment), whose
\* body is `pass`.
Task_complete(t) == [t EXCEPT !.completed = TRUE]
RepeatableTask_complete(t) == t
complete(t) ==
    IF t.kind = "Task" THEN Task_complete(t) ELSE RepeatableTask_complete(t)

\* Task.is_done: the end time against Datetime.now, then completed.
Task_is_done_inclusive(t, clock) ==
    IF t.end_time # None /\ t.end_time <= clock THEN TRUE ELSE t.completed

Task_is_done(t, clock) ==
    IF t.end_time # None /\ t.end_time < clock THEN TRUE ELSE t.completed

\* Assignment.is_done: the same test on end_time; the deadlines are not read.
Assignment_is_done(t, clock) ==
    IF t.end_time # None /\ t.end_time < clock THEN TRUE ELSE t.completed

is_done(t, clock) ==
    IF t.kind = "Assignment" THEN Assignment_is_done(t, clock)
    ELSE Task_is_done(t, clock)

\* Event.add_appointment: the start time must be set; on a repeating event
\* the appointment must start within one period of it (a period of None
\* makes the addition raise TypeError); then the list is appended to, which
\* for a non-repeating event is the attribute _appointments = None.
add_appointment_strict(t, appointment) ==
    IF t.start_time = None
    THEN Raise("Exception: Invalid appointment: task start time not set", t)
    ELSE IF t.repeat /\ t.period = None THEN Raise("TypeError", t)
    ELSE IF t.repeat /\ appointment.start_time >= t.start_time + t.period
    THEN Raise("Exception: Invalid appointment: time not within period", t)
    ELSE IF t.occurrences = NoList THEN Raise("AttributeError", t)
    ELSE Ok([t EXCEPT !.occurrences =
                SomeList(Append(t.occurrences[1], appointment))])

Event_add_appointment(t, appointment) ==
    IF t.start_time = None
    THEN Raise("Exception: Invalid appointment: task start time not set", t)
    ELSE IF t.repeat /\ t.period = None THEN Raise("TypeError", t)
    ELSE IF t.repeat /\ appointment.start_time > t.start_time + t.period
    THEN Raise("Exception: Invalid appointment: time not within period", t)
    ELSE IF t.occurrences = NoList THEN Raise("AttributeError", t)
    ELSE Ok([t EXCEPT !.occurrences =
                SomeList(Append(t.occurrences[1], appointment))])

\* Assignment.add_deadline: the same checks on the deadline instant.
Assignment_add_deadline(t, deadline) ==
    IF t.start_time = None
    THEN Raise("Exception: Invalid deadline: task start time not set", t)
    ELSE IF t.repeat /\ t.period = None THEN Raise("TypeError", t)
    ELSE IF t.repeat /\ deadline > t.start_time + t.period
    THEN Raise("Exception: Invalid deadline: time not within period", t)
    ELSE Ok([t EXCEPT !.occurrences =
                SomeList(Append(t.occurrences[1], deadline))])

\* list.remove(x): the list without its first element equal to x.
RECURSIVE ListRemove(_, _)
ListRemove(l, x) ==
    IF l = <<>> THEN <<>>
    ELSE IF Head(l) = x THEN Tail(l)
    ELSE <<Head(l)>> \o ListRemove(Tail(l), x)

InList(l, x) == \E i \in 1 .. Len(l) : l[i] = x

\* Event.remove_appointment: nothing when the appointment is not in the
\* list; `in` on the None of a non-repeating event raises TypeError.
Event_remove_appointment(t, appointment) ==
    IF t.occurrences = NoList THEN Raise("TypeError", t)
    ELSE IF InList(t.occurrences[1], appointment)
    THEN Ok([t EXCEPT !.occurrences =
                SomeList(ListRemove(t.occurrences[1], appointment))])
    ELSE Ok(t)

\* Assignment.remove_deadline
Assignment_remove_deadline(t, deadline) ==
    IF InList(t.occurrences[1], deadline)
    THEN Ok([t EXCEPT !.occurrences =
                SomeList(ListRemove(t.occurrences[1], deadline))])
    ELSE Ok(t)

\* JSON text of an instant: <<>> is null, <<x>> the formatted instant x.
JsonNull == <<>>
Datetime_for_json(x) == <<x>>

\* Task.from_json of "threads" on the record d: json_to_dict decodes both
\* instants with Datetime.from_json (strptime raises TypeError on null), and
\* the remaining entries are the constructor's arguments.
Task_from_json(d) ==
    IF d.start_time = JsonNull \/ d.end_time = JsonNull
    THEN Raise("TypeError", NoTask)
    ELSE Task_init("threads", "Task", d.start_time[1], d.end_time[1],
                   d.importance, FALSE, None)

\* A constructor call of snapshot impl and class kind.
Construct(impl, kind, s, e, importance, repeat, period, deadline, dur) ==
    IF impl = "task"
    THEN IF kind = "Assignment"
         THEN Assignment_init_legacy(impl, deadline, dur, importance)
         ELSE Task_init_task(kind, s, e, importance)
    ELSE IF impl = "thread"
    THEN IF kind = "Assignment"
         THEN Assignment_init_legacy(impl, deadline, dur, importance)
         ELSE Task_init(impl, kind, s, e, importance, repeat, period)
    ELSE IF kind = "Assignment"
         THEN Assignment_init(dur, importance, repeat, period)
         ELSE IF kind = "Event"
         THEN Event_init(s, e, importance, repeat, period)
         ELSE Task_init(impl, kind, s, e, importance, FALSE, None)

NoOp == [op |-> "init"]

InitChunk ==
    /\ objs = <<>>
    /\ threads = <<>>
    /\ past = <<>>
    /\ future = <<>>
    /\ file = <<>>
    /\ writers = <<>>
    /\ chunk = AllocatedTimeChunk_init
    /\ firstKey = None
    /\ task = NoTask
    /\ now = 0
    /\ last = NoOp

\* One call chunk.set_task_assigned(task, key).
SetTaskAssigned ==
    \E tid \in TaskIds, key \in Keys :
        LET r == set_task_assigned(chunk, tid, key) IN
        /\ chunk' = r.chunk
        /\ firstKey' = IF firstKey = None /\ r.result = "ok" THEN key
                       ELSE firstKey
        /\ UNCHANGED storeVars
        /\ UNCHANGED <<task, now>>
        /\ last' = [op |-> "set_task_assigned", task |-> tid, key |-> key,
                    result |-> r.result,
                    ownerBefore |-> get_task_assigned(chunk),
                    keyBefore |-> chunk.key,
                    firstKeyBefore |-> firstKey]

NextChunk == SetTaskAssigned

SpecChunk == InitChunk /\ [][NextChunk]_vars

\* ------------------------------------------- importance of a task object
ImportanceInputs == -1 .. MaxImportance + 1

InitTask ==
    /\ objs = <<>>
    /\ threads = <<>>
    /\ past = <<>>
    /\ future = <<>>
    /\ file = <<>>
    /\ writers = <<>>
    /\ chunk = AllocatedTimeChunk_init
    /\ firstKey = None
    /\ task = NoTask
    /\ now = 0
    /\ last = NoOp

\* A constructor call with an arbitrary importance argument; an Event is
\* given both times, an Assignment of the older snapshots a deadline.
ConstructWithImportance ==
    /\ task = NoTask
    /\ \E impl \in Impls, kind \in Kinds, importance \in ImportanceInputs :
        LET s == IF kind = "Event" THEN 0 ELSE None
            e == IF kind = "Event" THEN MaxTime ELSE None
            r == Construct(impl, kind, s, e, importance, FALSE, None,
                           MaxTime, 1)
        IN /\ task' = IF r.result = "ok" THEN r.task ELSE task
           /\ last' = [op |-> "construct", result |-> r.result,
                       importance |-> importance]
    /\ UNCHANGED storeVars
    /\ UNCHANGED <<chunk, firstKey, now>>

\* Task.from_json on a record with arbitrary importance.
FromJsonWithImportance ==
    /\ task = NoTask
    /\ \E importance \in ImportanceInputs,
          s \in {JsonNull, Datetime_for_json(0)},
          e \in {JsonNull, Datetime_for_json(MaxTime)} :
        LET r == Task_from_json([start_time |-> s, end_time |-> e,
                                 importance |-> importance])
        IN /\ task' = IF r.result = "ok" THEN r.task ELSE task
           /\ last' = [op |-> "from_json", result |-> r.result,
                       importance |-> importance]
    /\ UNCHANGED storeVars
    /\ UNCHANGED <<chunk, firstKey, now>>

\* task.importance = v ("thread", "threads"), task.set_importance(v) ("task").
SetImportance ==
    /\ task # NoTask
    /\ \E v \in ImportanceInputs :
        LET r == set_importance(task, v)
        IN /\ task' = r.task
           /\ last' = [op |-> "set_importance", result |-> r.result,
                       importance |-> v, before |-> task]
    /\ UNCHANGED storeVars
    /\ UNCHANGED <<chunk, firstKey, now>>

NextImportance ==
    \/ ConstructWithImportance
    \/ FromJsonWithImportance
    \/ SetImportance

SpecImportance == InitTask /\ [][NextImportance]_vars

\* ------------------------------------------------ times and completion
Durations == 0 .. MaxTime
MaxNow == MaxTime + 1

\* A constructor call with the default importance.
ConstructTask ==
    /\ task = NoTask
    /\ \E impl \in Impls, kind \in Kinds, s \in OptTimes, e \in OptTimes,
          repeat \in BOOLEAN, deadline \in Times,
          dur \in Durations \cup {None} :
        /\ kind = "Event" => s # None /\ e # None
        /\ kind = "Assignment" => s = None /\ e = None
        /\ kind # "Assignment" => deadline = 0 /\ dur = None
        /\ (impl = "threads" /\ kind = "Assignment") => deadline = 0
        /\ (impl # "threads" \/ kind = "Task") => ~repeat
        /\ LET r == Construct(impl, kind, s, e, DefaultImportance, repeat,
                              IF repeat THEN 1 ELSE None, deadline, dur)
           IN /\ task' = IF r.result = "ok" THEN r.task ELSE task
              /\ last' = [op |-> "construct", result |-> r.result]
    /\ UNCHANGED storeVars
    /\ UNCHANGED <<chunk, firstKey, now>>

\* task.change_time(new_start_time[, new_end_time]) (set_time in "task").
ChangeTime ==
    /\ task # NoTask
    /\ \E s \in Times, e \in OptTimes :
        LET r == change_time(task, s, e)
        IN /\ r.task.end_time <= MaxTime
           /\ task' = r.task
           /\ last' = [op |-> "change_time", result |-> r.result,
                       warnings |-> r.warnings, new_start_time |-> s,
                       new_end_time |-> e, before |-> task]
    /\ UNCHANGED storeVars
    /\ UNCHANGED <<chunk, firstKey, now>>

\* task.complete() ("threads").
Complete ==
    /\ task # NoTask
    /\ task.impl = "threads"
    /\ task' = complete(task)
    /\ last' = [op |-> "complete", result |-> "ok", before |-> task]
    /\ UNCHANGED storeVars
    /\ UNCHANGED <<chunk, firstKey, now>>

\* task.is_done() ("threads"), read at the current instant.
IsDone ==
    /\ task # NoTask
    /\ task.impl = "threads"
    /\ last' = [op |-> "is_done", result |-> "ok",
                ret |-> is_done(task, now)]
    /\ UNCHANGED storeVars
    /\ UNCHANGED <<chunk, firstKey, task, now>>

\* The clock advances; no operation touches the task.  The history records
\* what is_done() answers just before and just after.
Tick ==
    /\ now < MaxNow
    /\ now' = now + 1
    /\ last' = [op |-> "tick",
                done_before |-> task # NoTask /\ task.impl = "threads"
                                /\ is_done(task, now),
                done_after |-> task # NoTask /\ task.impl = "threads"
                               /\ is_done(task, now + 1)]
    /\ UNCHANGED storeVars
    /\ UNCHANGED <<chunk, firstKey, task>>

NextTask ==
    \/ ConstructTask
    \/ ChangeTime
    \/ Complete
    \/ IsDone
    \/ Tick

SpecTask == InitTask /\ [][NextTask]_vars

\* ------------------------------------------- occurrences of a task
MaxOccStart == 1
MaxOccurrences == 1
OccStarts == 0 .. MaxOccStart
OccEnds == 0 .. MaxOccStart + 1
Whens == 0 .. MaxOccStart + MaxPeriod + 1
Periods == 1 .. MaxPeriod

\* Event(...) or Assignment(...) of "threads", repeating (with a period or
\* with the default period None) or not.
ConstructRepeatable ==
    /\ task = NoTask
    /\ \E kind \in {"Event", "Assignment"}, s \in OccStarts, e \in OccEnds,
          repeat \in BOOLEAN, period \in Periods \cup {None} :
        /\ kind = "Assignment" => s = 0 /\ e = 0
        /\ ~repeat => period = None
        /\ LET r == Construct("threads", kind, s, e, DefaultImportance,
                              repeat, period, None, None)
           IN /\ task' = IF r.result = "ok" THEN r.task ELSE task
              /\ last' = [op |-> "construct", result |-> r.result]
    /\ UNCHANGED storeVars
    /\ UNCHANGED <<chunk, firstKey, now>>

\* task.change_time(s[, e]) on the event or assignment.
Schedule ==
    /\ task # NoTask
    /\ \E s \in OccStarts, e \in OccEnds \cup {None} :
        LET r == change_time(task, s, e)
        IN /\ r.task.end_time <= MaxTime
           /\ task' = r.task
           /\ last' = [op |-> "change_time", result |-> r.result]
    /\ UNCHANGED storeVars
    /\ UNCHANGED <<chunk, firstKey, now>>

\* event.add_appointment(TimeChunk(when))
AddAppointment ==
    /\ task # NoTask
    /\ task.kind = "Event"
    /\ \E when \in Whens :
        LET r == Event_add_appointment(task, TimeChunk(when))
        IN /\ r.task.occurrences # NoList
                => Len(r.task.occurrences[1]) <= MaxOccurrences
           /\ task' = r.task
           /\ last' = [op |-> "add_appointment", result |-> r.result,
                       when |-> when, occurrence |-> TimeChunk(when),
                       before |-> task]
    /\ UNCHANGED storeVars
    /\ UNCHANGED <<chunk, firstKey, now>>

\* assignment.add_deadline(when)
AddDeadline ==
    /\ task # NoTask
    /\ task.kind = "Assignment"
    /\ \E when \in Whens :
        LET r == Assignment_add_deadline(task, when)
        IN /\ Len(r.task.occurrences[1]) <= MaxOccurrences
           /\ task' = r.task
           /\ last' = [op |-> "add_deadline", result |-> r.result,
                       when |-> when, occurrence |-> when,
                       before |-> task]
    /\ UNCHANGED storeVars
    /\ UNCHANGED <<chunk, firstKey, now>>

\* event.remove_appointment(TimeChunk(when))
RemoveAppointment ==
    /\ task # NoTask
    /\ task.kind = "Event"
    /\ \E when \in Whens :
        LET r == Event_remove_appointment(task, TimeChunk(when))
        IN /\ task' = r.task
           /\ last' = [op |-> "remove_appointment", result |-> r.result,
                       when |-> when]
    /\ UNCHANGED storeVars
    /\ UNCHANGED <<chunk, firstKey, now>>

\* assignment.remove_deadline(when)
RemoveDeadline ==
    /\ task # NoTask
    /\ task.kind = "Assignment"
    /\ \E when \in Whens :
        LET r == Assignment_remove_deadline(task, when)
        IN /\ task' = r.task
           /\ last' = [op |-> "remove_deadline", result |-> r.result,
                       when |-> when]
    /\ UNCHANGED storeVars
    /\ UNCHANGED <<chunk, firstKey, now>>

NextOccurrence ==
    \/ ConstructRepeatable
    \/ Schedule
    \/ AddAppointment
    \/ AddDeadline
    \/ RemoveAppointment
    \/ RemoveDeadline
    \/ IsDone
    \/ Tick

SpecOccurrence == InitTask /\ [][NextOccurrence]_vars

\* ---------------------------------------------------------- Thread model
\* A task held by a thread is a task record of "threads" with its uid
\* (Task.__init__ draws a fresh uuid4; from_json restores the record's).
\* A Thread is its name, its default importance and its list of tasks.
MaxThreadTasks == 2
Uids == {"u1", "u2"}
Names == {"A", "B"}
ThreadVars == {"a", "b"}

WithUid(t, uid) == [uid |-> uid] @@ t

\* Task.__eq__ / Task.__hash__: identity is the uid.
Task_eq(t, u) == t.uid = u.uid

\* Thread.__init__
Thread_init(name, default_importance) ==
    [name |-> name, default_importance |-> default_importance,
     tasks |-> <<>>]

\* Thread.add_task: a plain append.
Thread_add_task(th, t) == [th EXCEPT !.tasks = Append(@, t)]

\* set(l): one element per uid, the first of the list.
set_of(l) ==
    {l[i] : i \in {j \in 1 .. Len(l) :
                      \A k \in 1 .. j - 1 : ~Task_eq(l[k], l[j])}}

\* s |= t on sets: the elements of s stay, those of t equal to none of s
\* are added.
set_ior(s, t) == s \cup {u \in t : \A v \in s : ~Task_eq(v, u)}

\* list(s): the elements of s in the set's iteration order, any order here.
Orders(S) ==
    {l \in [1 .. Cardinality(S) -> S] :
        \A i, j \in 1 .. Cardinality(S) : l[i] = l[j] => i = j}

TaskIdsOf(l) == {l[i].uid : i \in 1 .. Len(l)}

\* Thread.__ior__: TypeError when the names differ; otherwise self.tasks
\* becomes list(set(self.tasks) | set(other.tasks)).  `tasks` is that set.
\* The method has no return statement: it returns None.
Thread_ior_any_name(self, other) ==
    [result |-> "ok",
     tasks |-> set_ior(set_of(self.tasks), set_of(other.tasks))]

Thread_ior(self, other) ==
    IF self.name # other.name
    THEN [result |-> "TypeError: cannot find union: threads are not the same",
          tasks |-> {}]
    ELSE [result |-> "ok",
          tasks |-> set_ior(set_of(self.tasks), set_of(other.tasks))]

\* An optional thread: <<>> is None, <<th>> the thread th.
NoThread == <<>>

\* Thread.__or__: a new thread sharing self's task list is united in place
\* with other by `new_thread |= other`, which rebinds new_thread to what
\* __ior__ returns (None), and new_thread is returned.  self and other are
\* not written.  `made` is the set of tasks the discarded thread holds.
Thread_or(self, other) ==
    LET new_thread == [Thread_init(self.name, self.default_importance)
                          EXCEPT !.tasks = self.tasks]
        r == Thread_ior(new_thread, other)
    IN [result |-> r.result, ret |-> NoThread, made |-> r.tasks,
        self |-> self, other |-> other]

\* Whether the module timemap.util gives Datetime a to_json method (it
\* defines from_json and for_json).
Datetime_has_to_json == FALSE

\* Task.to_json, and the to_json of Event and Assignment, which call it
\* first: self.start_time.to_json() raises AttributeError, on None and on a
\* Datetime alike.
Task_to_json(t) ==
    IF t.start_time = None \/ t.end_time = None \/ ~Datetime_has_to_json
    THEN [result |-> "AttributeError", json |-> <<>>]
    ELSE [result |-> "ok",
          json |-> <<[type |-> IF t.kind = "Event" THEN "event"
                               ELSE IF t.kind = "Assignment"
                               THEN "assignment" ELSE "absent",
                      uid |-> t.uid,
                      start_time |-> Datetime_for_json(t.start_time),
                      end_time |-> Datetime_for_json(t.end_time),
                      importance |-> t.importance]>>]

\* Thread.to_json: the tasks' to_json in list order, then the record.
RECURSIVE tasks_to_json(_)
tasks_to_json(l) ==
    IF l = <<>> THEN [result |-> "ok", json |-> <<>>]
    ELSE LET h == Task_to_json(Head(l)) IN
         IF h.result # "ok" THEN [result |-> h.result, json |-> <<>>]
         ELSE LET r == tasks_to_json(Tail(l)) IN
              IF r.result # "ok" THEN r
              ELSE [result |-> "ok", json |-> h.json \o r.json]

Thread_to_json(th) ==
    LET r == tasks_to_json(th.tasks) IN
    IF r.result # "ok" THEN [result |-> r.result, json |-> <<>>]
    ELSE [result |-> "ok",
          json |-> <<[name |-> th.name,
                      default_importance |-> th.default_importance,
                      tasks |-> r.json]>>]

\* The from_json Thread.from_json picks for a task record by its type:
\* Event.from_json and Assignment.from_json raise TypeError in the
\* json_to_dict of their repeat class (super() in a static method); a
\* record of another type goes to Task.from_json, which passes an unknown
\* 'type' entry to Task.__init__ (TypeError).
task_from_json(d) ==
    IF d.type \in {"event", "assignment"} THEN Raise("TypeError", NoTask)
    ELSE IF d.type # "absent" THEN Raise("TypeError", NoTask)
    ELSE LET r == Task_from_json(d) IN
         IF r.result # "ok" THEN r ELSE Ok(WithUid(r.task, d.uid))

\* Thread.from_json: the thread of the record, its tasks decoded and added
\* in order; the first task that fails to decode aborts the call.
RECURSIVE tasks_from_json(_, _)
tasks_from_json(th, l) ==
    IF l = <<>> THEN [result |-> "ok", thread |-> th]
    ELSE LET r == task_from_json(Head(l)) IN
         IF r.result # "ok" THEN [result |-> r.result, thread |-> th]
         ELSE tasks_from_json(Thread_add_task(th, r.task), Tail(l))

Thread_from_json(d) ==
    tasks_from_json(Thread_init(d.name, d.default_importance), d.tasks)

\* The task objects a caller makes for the thread held by variable x: a
\* base Task with both times, its importance telling the two makers apart.
MadeTask(x, uid) ==
    WithUid(Task_init("threads", "Task", 0, MaxTime,
                      IF x = "a" THEN DefaultImportance ELSE MaxImportance,
                      FALSE, None).task, uid)

\* The JSON record of such a task.
TaskJson(type, uid, s, e) ==
    [type |-> type, uid |-> uid, start_time |-> s, end_time |-> e,
     importance |-> DefaultImportance]

UnitIdle ==
    /\ chunk = AllocatedTimeChunk_init
    /\ firstKey = None
    /\ task = NoTask
    /\ now = 0

InitThread ==
    /\ UnitIdle
    /\ last = NoOp
    /\ \E n \in Names :
          objs = [x \in ThreadVars |->
                    Thread_init(IF x = "a" THEN "A" ELSE n, DefaultImportance)]
    /\ threads = <<>>
    /\ past = <<>>
    /\ future = <<>>
    /\ file = <<>>
    /\ writers = <<>>

Frame ==
    UNCHANGED <<chunk, firstKey, task, now, threads, past, future, file,
                writers>>

\* The number of tasks held by the thread variables other than x.
OtherLen(x) == Len(objs[CHOOSE y \in ThreadVars : y # x].tasks)

\* objs[x].add_task(t)
AddTask ==
    /\ \E x \in ThreadVars, uid \in Uids :
        /\ Len(objs[x].tasks) + OtherLen(x) < MaxThreadTasks
        /\ objs' = [objs EXCEPT ![x] = Thread_add_task(@, MadeTask(x, uid))]
        /\ last' = [op |-> "add_task", result |-> "ok", x |-> x]
    /\ Frame

\* ret = objs[x] | objs[y]
Union ==
    /\ \E x \in ThreadVars, y \in ThreadVars :
        LET r == Thread_or(objs[x], objs[y]) IN
        /\ objs' = [objs EXCEPT ![x] = r.self, ![y] = r.other]
        /\ last' = [op |-> "or", result |-> r.result, x |-> x, y |-> y,
                    ret |-> r.ret, before |-> objs]
    /\ Frame

\* T |= objs[y], T a name bound to objs[x]: the object is united in place
\* and the name rebound to the value __ior__ returns.
InplaceUnion ==
    /\ \E x \in ThreadVars, y \in ThreadVars :
        LET r == Thread_ior(objs[x], objs[y]) IN
        /\ \E l \in Orders(r.tasks) :
              objs' = IF r.result = "ok" THEN [objs EXCEPT ![x].tasks = l]
                      ELSE objs
        /\ last' = [op |-> "ior", result |-> r.result, x |-> x, y |-> y,
                    ret |-> NoThread, before |-> objs]
    /\ Frame

\* objs[x] = Thread.from_json(d), d a record of well-formed base tasks
\* under the name the variable's thread has.
ThreadFromJson ==
    /\ \E x \in ThreadVars,
          ids \in UNION {[1 .. k -> Uids] : k \in 0 .. MaxThreadTasks} :
        LET d == [name |-> objs[x].name,
                  default_importance |-> DefaultImportance,
                  tasks |-> [i \in 1 .. Len(ids) |->
                                TaskJson("absent", ids[i],
                                         Datetime_for_json(0),
                                         Datetime_for_json(MaxTime))]]
            r == Thread_from_json(d)
        IN /\ Len(ids) + OtherLen(x) <= MaxThreadTasks
           /\ objs' = IF r.result = "ok" THEN [objs EXCEPT ![x] = r.thread]
                      ELSE objs
           /\ last' = [op |-> "from_json", result |-> r.result, x |-> x,
                       d |-> d]
    /\ Frame

NextThread ==
    \/ AddTask
    \/ Union
    \/ InplaceUnion
    \/ ThreadFromJson

SpecThread == InitThread /\ [][NextThread]_vars

\* ----------------------------------------------------------- Thread codec
InitCodec ==
    /\ UnitIdle
    /\ last = NoOp
    /\ objs = <<>>
    /\ threads = <<>>
    /\ past = <<>>
    /\ future = <<>>
    /\ file = <<>>
    /\ writers = <<>>

CodecTimes == {None} \cup (0 .. MaxTime)
CodecImportances == {0, DefaultImportance, MaxImportance}

\* Thread.from_json(th.to_json()) for a thread th of one task of any
\* variant, its times both set or both unset.
RoundTrip ==
    /\ \E kind \in Kinds, s \in CodecTimes, e \in CodecTimes,
          importance \in CodecImportances, uid \in Uids :
        LET c == Construct("threads", kind, s, e, importance, FALSE,
                           None, None, 1)
            m == IF kind = "Assignment" /\ s # None /\ c.result = "ok"
                 THEN change_time(c.task, s, e)
                 ELSE c
            t == WithUid(m.task, uid)
            th == Thread_add_task(Thread_init("A", DefaultImportance), t)
            j == Thread_to_json(th)
            r == IF j.result = "ok" THEN Thread_from_json(j.json[1])
                 ELSE [result |-> j.result, thread |-> NoThread]
        IN /\ (s = None) = (e = None)
           /\ m.result = "ok"
           /\ last' = [op |-> "round_trip", result |-> r.result,
                       original |-> t, encoded |-> j.json,
                       decoded |-> r.thread]
    /\ UNCHANGED objs
    /\ Frame

\* Thread.to_json() of a thread without tasks.
EmptyToJson ==
    /\ \E n \in Names, importance \in CodecImportances :
        LET th == Thread_init(n, importance)
            j == Thread_to_json(th)
            r == IF j.result = "ok" THEN Thread_from_json(j.json[1])
                 ELSE [result |-> j.result, thread |-> NoThread]
        IN last' = [op |-> "round_trip_empty", result |-> r.result,
                    original |-> th, encoded |-> j.json,
                    decoded |-> r.thread]
    /\ UNCHANGED objs
    /\ Frame

NextCodec ==
    \/ RoundTrip
    \/ EmptyToJson

SpecCodec == InitCodec /\ [][NextCodec]_vars

\* ------------------------------------------------------ TaskManager model
\* manager.threads is the list `threads`; the directories threads/past and
\* threads/future are `past` and `future`, which give for each thread name
\* the content of {name}.json: NoFile when there is no such file, else the
\* JSON thread record it holds.
NoFile == <<>>
FileOf(record) == <<record>>

\* TaskManager.__init__
TaskManager_init == <<>>

\* A well-formed record of a thread file: base tasks with both times.
ThreadJson(name, ids) ==
    [name |-> name, default_importance |-> DefaultImportance,
     tasks |-> [i \in 1 .. Len(ids) |->
                   TaskJson("absent", ids[i], Datetime_for_json(0),
                            Datetime_for_json(MaxTime))]]

\* A record holding an event, which Thread.from_json fails to decode.
EventThreadJson(name) ==
    [name |-> name, default_importance |-> DefaultImportance,
     tasks |-> <<TaskJson("event", "u1", Datetime_for_json(0),
                          Datetime_for_json(MaxTime))>>]

\* What _filter_tasks appends per thread of manager.threads: the list
\* threads_past (threads_future) itself, not the thread just filled.
TheListItself == "list"

\* TaskManager._filter_tasks: per thread, the done tasks go to thread_past
\* and the others to thread_future; both are dropped at the end of the
\* iteration, and the lists returned hold themselves once per thread.
_filter_tasks(ths, clock) ==
    LET thread_past(th) ==
            [Thread_init(th.name, th.default_importance)
                EXCEPT !.tasks = SelectSeq(th.tasks,
                                           LAMBDA t : is_done(t, clock))]
        thread_future(th) ==
            [Thread_init(th.name, th.default_importance)
                EXCEPT !.tasks = SelectSeq(th.tasks,
                                           LAMBDA t : ~is_done(t, clock))]
    IN [threads_past |-> [i \in 1 .. Len(ths) |-> TheListItself],
        threads_future |-> [i \in 1 .. Len(ths) |-> TheListItself],
        dropped_past |-> [i \in 1 .. Len(ths) |-> thread_past(ths[i])],
        dropped_future |-> [i \in 1 .. Len(ths) |-> thread_future(ths[i])]]

\* save_state that clears threads/future before it writes.
save_state_wiping(ths, pastDir, futureDir, clock) ==
    LET f == _filter_tasks(ths, clock) IN
    IF f.threads_past # <<>> /\ f.threads_past[1] = TheListItself
    THEN [result |-> "AttributeError", past |-> pastDir,
          future |-> futureDir]
    ELSE [result |-> "ok", past |-> pastDir,
          future |-> [n \in DOMAIN futureDir |-> NoFile]]

\* TaskManager.save_state: the first element of threads_past is a list,
\* whose .name raises AttributeError before any file is opened; without
\* threads both loops are empty.
save_state(ths, pastDir, futureDir, clock) ==
    LET f == _filter_tasks(ths, clock) IN
    IF f.threads_past # <<>> /\ f.threads_past[1] = TheListItself
    THEN [result |-> "AttributeError", past |-> pastDir,
          future |-> futureDir]
    ELSE [result |-> "ok", past |-> pastDir, future |-> futureDir]

\* TaskManager._read_thread_file
_read_thread_file(content) == Thread_from_json(content[1])

\* The loop of load_state over the listed files, appending each thread
\* read; a file that fails to decode ends the call.
RECURSIVE read_files(_, _, _)
read_files(acc, order, futureDir) ==
    IF order = <<>> THEN [result |-> "ok", threads |-> acc]
    ELSE LET r == _read_thread_file(futureDir[Head(order)]) IN
         IF r.result # "ok" THEN [result |-> r.result, threads |-> acc]
         ELSE read_files(Append(acc, r.thread), Tail(order), futureDir)

\* load_state that keeps the threads already in memory.
load_state_keeping(ths, order, futureDir) ==
    read_files(ths, order, futureDir)

\* TaskManager.load_state: self.threads = [], then the files of
\* dir_future in the order os.listdir gives them.
load_state(ths, order, futureDir) ==
    read_files(<<>>, order, futureDir)

\* The names os.listdir(dir) gives.
listdir(dir) == {n \in DOMAIN dir : dir[n] # NoFile}

\* refresh_state that loads whether or not save_state returned.
refresh_state_always_loading(ths, order, pastDir, futureDir, clock) ==
    LET sv == save_state(ths, pastDir, futureDir, clock)
        ld == load_state(ths, order, sv.future)
    IN [result |-> IF sv.result # "ok" THEN sv.result ELSE ld.result,
        threads |-> ld.threads, past |-> sv.past, future |-> sv.future,
        saved |-> sv.result = "ok", loaded |-> TRUE]

\* TaskManager.refresh_state: save_state, then load_state; an exception of
\* save_state leaves load_state uncalled.  `saved` tells whether save_state
\* returned and `loaded` whether load_state was called.
refresh_state(ths, order, pastDir, futureDir, clock) ==
    LET sv == save_state(ths, pastDir, futureDir, clock) IN
    IF sv.result # "ok"
    THEN [result |-> sv.result, threads |-> ths, past |-> sv.past,
          future |-> sv.future, saved |-> FALSE, loaded |-> FALSE]
    ELSE LET ld == load_state(ths, order, sv.future) IN
         [result |-> ld.result, threads |-> ld.threads, past |-> sv.past,
          future |-> sv.future, saved |-> TRUE, loaded |-> TRUE]

\* The thread files found at start: written by hand or by another tool,
\* since save_state writes none.
PastFiles == {NoFile, FileOf(ThreadJson("A", <<"u1">>))}
FutureFilesA ==
    {NoFile} \cup {FileOf(ThreadJson("A", ids)) :
                      ids \in {<<>>, <<"u1">>, <<"u1", "u2">>}}
FutureFilesB ==
    {NoFile, FileOf(ThreadJson("B", <<"u2">>)), FileOf(EventThreadJson("B"))}

InitManager ==
    /\ chunk = AllocatedTimeChunk_init
    /\ firstKey = None
    /\ task = NoTask
    /\ now = MaxTime
    /\ last = NoOp
    /\ objs = <<>>
    /\ file = <<>>
    /\ writers = <<>>
    /\ threads = TaskManager_init
    /\ \E p \in PastFiles : past = [n \in Names |-> IF n = "A" THEN p ELSE NoFile]
    /\ \E fa \in FutureFilesA, fb \in FutureFilesB :
          future = [n \in Names |-> IF n = "A" THEN fa ELSE fb]

ManagerFrame == UNCHANGED <<chunk, firstKey, task, objs, file, writers>>

TasksHeld == LET RECURSIVE sum(_)
                 sum(l) == IF l = <<>> THEN 0
                           ELSE Len(Head(l).tasks) + sum(Tail(l))
             IN sum(threads)

\* manager.threads.append(Thread(n, 5))
NewThread ==
    /\ Len(threads) < Cardinality(Names)
    /\ \E n \in Names :
          threads' = Append(threads, Thread_init(n, DefaultImportance))
    /\ last' = [op |-> "new_thread", result |-> "ok"]
    /\ UNCHANGED <<past, future, now>>
    /\ ManagerFrame

\* manager.threads[i].add_task(Task(...))
ManagerAddTask ==
    /\ TasksHeld < MaxThreadTasks
    /\ \E i \in 1 .. Len(threads), uid \in Uids :
          threads' = [threads EXCEPT ![i] =
                         Thread_add_task(@, MadeTask("a", uid))]
    /\ last' = [op |-> "add_task", result |-> "ok"]
    /\ UNCHANGED <<past, future, now>>
    /\ ManagerFrame

\* manager.threads[i].tasks[k].complete()
ManagerComplete ==
    /\ \E i \in 1 .. Len(threads) :
          \E k \in 1 .. Len(threads[i].tasks) :
              /\ ~threads[i].tasks[k].completed
              /\ threads' = [threads EXCEPT ![i].tasks[k] = complete(@)]
    /\ last' = [op |-> "complete", result |-> "ok"]
    /\ UNCHANGED <<past, future, now>>
    /\ ManagerFrame

\* manager.save_state()
Save ==
    /\ LET r == save_state(threads, past, future, now) IN
        /\ past' = r.past
        /\ future' = r.future
        /\ last' = [op |-> "save", result |-> r.result, before |-> threads,
                    pastBefore |-> past, futureBefore |-> future]
    /\ UNCHANGED <<threads, now>>
    /\ ManagerFrame

\* manager.load_state()
Load ==
    /\ \E order \in Orders(listdir(future)) :
        LET r == load_state(threads, order, future) IN
        /\ threads' = r.threads
        /\ last' = [op |-> "load", result |-> r.result, before |-> threads,
                    pastBefore |-> past]
    /\ UNCHANGED <<past, future, now>>
    /\ ManagerFrame

\* manager.refresh_state()
Refresh ==
    /\ \E order \in Orders(listdir(future)) :
        LET r == refresh_state(threads, order, past, future, now) IN
        /\ threads' = r.threads
        /\ past' = r.past
        /\ future' = r.future
        /\ last' = [op |-> "refresh", result |-> r.result,
                    before |-> threads, pastBefore |-> past,
                    saved |-> r.saved, loaded |-> r.loaded, order |-> order]
    /\ UNCHANGED now
    /\ ManagerFrame

NextManager ==
    \/ NewThread
    \/ ManagerAddTask
    \/ ManagerComplete
    \/ Tick
    \/ Save
    \/ Load
    \/ Refresh

SpecManager == InitManager /\ [][NextManager]_vars

\* ------------------------------------------------------ thread file writes
\* One thread file under the two writers of save_state, step by step.  The
\* file is missing, empty, half-written (part of a JSON text) or whole (the
\* JSON record in `data`).  `file` holds its content, the writer running
\* (`op`), that writer's position (`pc`) and its locals.
MissingFile == [state |-> "missing", data |-> <<>>]
EmptyFile == [state |-> "empty", data |-> <<>>]
PartialFile == [state |-> "partial", data |-> <<>>]
WholeFile(record) == [state |-> "whole", data |-> <<record>>]

Idle(content) ==
    [content |-> content, op |-> "none", pc |-> "idle", thread |-> NoThread,
     old_thread |-> NoThread, encoded |-> <<>>]

\* The threads handed to a writer: without tasks, or with base tasks.
WrittenThreads ==
    {Thread_init(n, DefaultImportance) : n \in Names}
    \cup {Thread_add_task(Thread_init("A", DefaultImportance),
                          MadeTask("a", uid)) : uid \in Uids}

InitFile ==
    /\ UnitIdle
    /\ last = NoOp
    /\ objs = <<>>
    /\ threads = <<>>
    /\ past = <<>>
    /\ future = <<>>
    /\ \E c \in {MissingFile} \cup
                {WholeFile(ThreadJson(n, ids)) :
                    n \in Names, ids \in {<<>>, <<"u1">>}} :
          file = Idle(c)
    /\ writers = <<>>

FileFrame ==
    UNCHANGED <<chunk, firstKey, task, now, objs, threads, past, future,
                writers>>

Step(f, result) ==
    /\ file' = f
    /\ last' = [op |-> file.op, at |-> file.pc, result |-> result]
    /\ FileFrame

\* _overwrite_thread_file: open(file_path, 'w') creates or empties the file.
OpenForOverwrite ==
    /\ file.pc = "idle"
    /\ \E th \in WrittenThreads :
          /\ file' = [Idle(EmptyFile) EXCEPT !.op = "overwrite",
                                             !.pc = "opened", !.thread = <<th>>]
          /\ last' = [op |-> "overwrite", at |-> "idle", result |-> "ok"]
    /\ FileFrame

\* _append_to_thread_file: open(file_path, 'r+') needs the file to exist.
OpenForAppend ==
    /\ file.pc = "idle"
    /\ \E th \in WrittenThreads :
          /\ file' = IF file.content.state = "missing" THEN file
                     ELSE [file EXCEPT !.op = "append", !.pc = "read",
                                       !.thread = <<th>>]
          /\ last' = [op |-> "append", at |-> "idle",
                      result |-> IF file.content.state = "missing"
                                 THEN "FileNotFoundError" ELSE "ok"]
    /\ FileFrame

\* old_thread = Thread.from_json(json.load(f)): an empty or half-written
\* file is no JSON text (ValueError).
ReadOld ==
    /\ file.pc = "read"
    /\ IF file.content.state # "whole"
       THEN Step(Idle(file.content), "ValueError")
       ELSE LET r == Thread_from_json(file.content.data[1]) IN
            IF r.result # "ok" THEN Step(Idle(file.content), r.result)
            ELSE Step([file EXCEPT !.pc = "unite",
                                   !.old_thread = <<r.thread>>], "ok")

\* old_thread |= thread: old_thread is bound to what __ior__ returns.
UniteOld ==
    /\ file.pc = "unite"
    /\ LET r == Thread_ior(file.old_thread[1], file.thread[1]) IN
       IF r.result # "ok" THEN Step(Idle(file.content), r.result)
       ELSE Step([file EXCEPT !.pc = "truncate", !.old_thread = NoThread],
                 "ok")

\* f.seek(0); f.truncate()
Truncate ==
    /\ file.pc = "truncate"
    /\ Step([file EXCEPT !.content = EmptyFile, !.pc = "opened"], "ok")

\* The argument of json.dump: thread.to_json(), or old_thread.to_json()
\* with old_thread None (AttributeError).  An exception leaves the `with`
\* block, which closes the file as it is.
Encode ==
    /\ file.pc = "opened"
    /\ LET subject == IF file.op = "append" THEN file.old_thread
                      ELSE file.thread
           j == IF subject = NoThread
                THEN [result |-> "AttributeError", json |-> <<>>]
                ELSE Thread_to_json(subject[1])
       IN IF j.result # "ok" THEN Step(Idle(file.content), j.result)
          ELSE Step([file EXCEPT !.pc = "dump", !.encoded = j.json], "ok")

\* json.dump writes the text chunk by chunk.
WriteChunk ==
    /\ file.pc = "dump"
    /\ file.content.state # "whole"
    /\ Step([file EXCEPT !.content =
                IF file.content.state = "empty" THEN PartialFile
                ELSE WholeFile(file.encoded[1])], "ok")

\* The end of the `with` block.
Close ==
    /\ file.pc = "dump"
    /\ file.content.state = "whole"
    /\ Step(Idle(file.content), "ok")

\* The process dies inside a writer; the file stays as it is.
Crash ==
    /\ file.pc \notin {"idle", "crashed"}
    /\ Step([file EXCEPT !.pc = "crashed"], "crash")

\* The program is started again.
Restart ==
    /\ file.pc = "crashed"
    /\ Step(Idle(file.content), "ok")

NextFile ==
    \/ OpenForOverwrite
    \/ OpenForAppend
    \/ ReadOld
    \/ UniteOld
    \/ Truncate
    \/ Encode
    \/ WriteChunk
    \/ Close
    \/ Crash
    \/ Restart

SpecFile == InitFile /\ [][NextFile]_vars

\* ------------------------------------------- two writers of one past file
\* Two managers run _append_to_thread_file on the past file of one thread
\* at the same time.  `file` is the shared file: its content and, as
\* history, the content it had at the start; `writers` gives for each
\* manager the position it has reached in the method and its locals.
Managers == {"m1", "m2"}

SharedFile(content) == [content |-> content, prior |-> content]

\* The threads of done tasks the two managers save.
DoneThreads ==
    {Thread_add_task(Thread_init(n, DefaultImportance), MadeTask("a", uid)) :
        n \in Names, uid \in Uids}

InitRace ==
    /\ UnitIdle
    /\ last = NoOp
    /\ objs = <<>>
    /\ threads = <<>>
    /\ past = <<>>
    /\ future = <<>>
    /\ \E c \in {MissingFile, WholeFile(ThreadJson("A", <<>>)),
                WholeFile(ThreadJson("A", <<"u0">>))} :
          file = SharedFile(c)
    /\ \E th \in [Managers -> DoneThreads] :
          writers = [m \in Managers |->
                        [pc |-> "open", thread |-> th[m],
                         old_thread |-> NoThread, result |-> "running"]]

RaceFrame ==
    UNCHANGED <<chunk, firstKey, task, now, objs, threads, past, future>>

\* What manager m does next, leaving the method with an exception when
\* result is not "ok".
RaceStep(m, pc, old_thread, content, result) ==
    /\ writers' = [writers EXCEPT
                      ![m].pc = IF result = "ok" THEN pc ELSE "done",
                      ![m].old_thread = old_thread,
                      ![m].result = IF result # "ok" THEN result
                                    ELSE IF pc = "done" THEN "ok"
                                    ELSE "running"]
    /\ file' = [file EXCEPT !.content = content]
    /\ last' = [op |-> "append", manager |-> m, at |-> writers[m].pc,
                result |-> result]
    /\ RaceFrame

\* open(file_path, 'r+')
RaceOpen ==
    \E m \in Managers :
        /\ writers[m].pc = "open"
        /\ RaceStep(m, "read", NoThread, file.content,
                    IF file.content.state = "missing"
                    THEN "FileNotFoundError" ELSE "ok")

\* old_thread = Thread.from_json(json.load(f))
RaceRead ==
    \E m \in Managers :
        /\ writers[m].pc = "read"
        /\ IF file.content.state # "whole"
           THEN RaceStep(m, "done", NoThread, file.content, "ValueError")
           ELSE LET r == Thread_from_json(file.content.data[1]) IN
                RaceStep(m, "unite",
                         IF r.result = "ok" THEN <<r.thread>> ELSE NoThread,
                         file.content, r.result)

\* old_thread |= thread
RaceUnite ==
    \E m \in Managers :
        /\ writers[m].pc = "unite"
        /\ LET r == Thread_ior(writers[m].old_thread[1], writers[m].thread) IN
           RaceStep(m, "truncate", NoThread, file.content, r.result)

\* f.seek(0); f.truncate()
RaceTruncate ==
    \E m \in Managers :
        /\ writers[m].pc = "truncate"
        /\ RaceStep(m, "dump", writers[m].old_thread, EmptyFile, "ok")

\* json.dump(old_thread.to_json(), f), then the end of the with block.
RaceDump ==
    \E m \in Managers :
        /\ writers[m].pc = "dump"
        /\ LET j == IF writers[m].old_thread = NoThread
                    THEN [result |-> "AttributeError", json |-> <<>>]
                    ELSE Thread_to_json(writers[m].old_thread[1])
           IN RaceStep(m, "done", writers[m].old_thread,
                       IF j.result = "ok" THEN WholeFile(j.json[1])
                       ELSE file.content,
                       j.result)

NextRace ==
    \/ RaceOpen
    \/ RaceRead
    \/ RaceUnite
    \/ RaceTruncate
    \/ RaceDump

SpecRace == InitRace /\ [][NextRace]_vars

\* ------------------------------------------------------------- claims
\* C1: once a first allocate(chunk, taskA, key1) has succeeded, an
\* allocate with a different key fails with the key-mismatch error and
\* leaves the chunk's owner and key unchanged.
C1_KeyMismatchRejected ==
    (last.op = "set_task_assigned" /\ last.firstKeyBefore # None
        /\ last.key # last.firstKeyBefore)
    => (/\ last.result = "KeyError"
        /\ get_task_assigned(chunk) = last.ownerBefore
        /\ chunk.key = last.keyBefore)

\* C2: an allocate on a chunk whose key is unset succeeds and records both
\* the owner and the presented key.
C2_FirstAllocateRecordsKey ==
    (last.op = "set_task_assigned" /\ last.keyBefore = None)
    => (/\ last.result = "ok"
        /\ get_task_assigned(chunk) = last.task
        /\ chunk.key = last.key)

\* C3: change_time(task, start, end) with start <= end sets start_time =
\* start and end_time = end exactly; with start > end it fails with the
\* invalid-time-range error and the task keeps its previous times.
C3_ChangeTimeExactOrRejected ==
    (last.op = "change_time" /\ last.before.impl = "threads"
        /\ last.new_end_time # None)
    => IF last.new_start_time <= last.new_end_time
       THEN /\ last.result = "ok"
            /\ task.start_time = last.new_start_time
            /\ task.end_time = last.new_end_time
       ELSE /\ last.result = "Exception: Invalid time range for task. "
            /\ task.start_time = last.before.start_time
            /\ task.end_time = last.before.end_time

\* C3 witness: a change with start > end was rejected on a task that had
\* both times set, and those times are still there.
C3_Witness ==
    /\ last.op = "change_time"
    /\ last.before.impl = "threads"
    /\ last.new_end_time # None
    /\ last.new_start_time > last.new_end_time
    /\ last.result # "ok"
    /\ last.before.start_time # None
    /\ last.before.end_time # None
    /\ task.end_time = last.before.end_time

\* C4: set_importance(task, v) succeeds for every v with 0 <= v <= 10, both
\* bounds included, and the importance read back is v; for every other v it
\* fails and the previous importance is retained.
C4_SetImportanceRange ==
    last.op = "set_importance"
    => IF 0 <= last.importance /\ last.importance <= MaxImportance
       THEN /\ last.result = "ok"
            /\ task.importance = last.importance
       ELSE /\ last.result # "ok"
            /\ task.importance = last.before.importance

\* C5: in every reachable state of a task, directly after construction and
\* after from_json included, its importance lies in [0, 10].
C5_ImportanceAlwaysInRange ==
    task # NoTask
    => (0 <= task.importance /\ task.importance <= MaxImportance)

\* C6: complete(task) on a non-repeating task of any variant sets completed,
\* so that is_done() is true afterwards whatever the task's times are.
C6_CompleteSetsCompleted ==
    (last.op = "complete" /\ ~last.before.repeat)
    => (task.completed /\ is_done(task, now))

\* C7: for a plain task is_done() is true exactly when completed is true or
\* end_time is set and strictly before the current instant, evaluated
\* against the clock at each call: once the clock passes the end_time of a
\* not-completed task it is done with no operation on it.
C7_IsDonePlainTask ==
    (task # NoTask /\ task.impl = "threads" /\ task.kind = "Task")
    => LET expected == task.completed
                       \/ (task.end_time # None /\ task.end_time < now)
       IN /\ last.op = "is_done" => last.ret = expected
          /\ last.op = "tick" => last.done_after = expected

\* C7 witness: a not-completed plain task that was not done before a tick
\* of the clock and is done after it.
C7_Witness ==
    /\ task # NoTask
    /\ task.impl = "threads"
    /\ task.kind = "Task"
    /\ last.op = "tick"
    /\ ~task.completed
    /\ ~last.done_before
    /\ last.done_after

\* C8: for an Assignment is_done() is decided by its deadline: not completed
\* and the deadline strictly before the current instant is done, not
\* completed and the deadline not before it is not done, whatever end_time.
C8_AssignmentDoneByDeadline ==
    (/\ last.op = "is_done"
     /\ task.kind = "Assignment"
     /\ ~task.completed
     /\ Len(task.occurrences[1]) = 1)
    => last.ret = (task.occurrences[1][1] < now)

\* C9: on a repeating task with start_time set, adding an occurrence at
\* `when` fails with the out-of-period error and leaves the occurrence list
\* unchanged when when > start_time + period; otherwise it succeeds and the
\* occurrence is in the list afterwards.
C9_OccurrenceWithinPeriod ==
    (/\ last.op \in {"add_appointment", "add_deadline"}
     /\ last.before.repeat
     /\ last.before.start_time # None
     /\ last.before.period # None)
    => IF last.when > last.before.start_time + last.before.period
       THEN /\ last.result \in
                  {"Exception: Invalid appointment: time not within period",
                   "Exception: Invalid deadline: time not within period"}
            /\ task.occurrences = last.before.occurrences
       ELSE /\ last.result = "ok"
            /\ InList(task.occurrences[1], last.occurrence)
            /\ task.occurrences[1]
                   = Append(last.before.occurrences[1], last.occurrence)

\* C9 witness: an appointment exactly one period after the start of a
\* repeating event was accepted.
C9_Witness ==
    /\ last.op = "add_appointment"
    /\ last.before.repeat
    /\ last.before.period # None
    /\ last.when = last.before.start_time + last.before.period
    /\ last.result = "ok"
    /\ InList(task.occurrences[1], last.occurrence)

\* The end time a time change with these arguments asks for.
EndAfter(before, new_start_time, new_end_time) ==
    IF new_end_time # None THEN new_end_time
    ELSE IF before.end_time # None
    THEN new_start_time + (before.end_time - before.start_time)
    ELSE None

\* The expected duration a time change leaves the assignment with.
DurationAfter(before, new_start_time, new_end_time) ==
    IF new_end_time # None THEN new_end_time - new_start_time
    ELSE IF before.end_time # None THEN before.end_time - before.start_time
    ELSE before.expected_duration

\* C10: change_time on an Assignment whose new start plus duration exceeds
\* the deadline still applies the new start_time and end_time, emits exactly
\* one deadline-violation diagnostic and returns normally.
C10_DeadlineViolationIsSoft ==
    (/\ last.op = "change_time"
     /\ last.before.kind = "Assignment"
     /\ last.before.deadline # None
     /\ (last.new_end_time # None
            => last.new_start_time <= last.new_end_time)
     /\ DurationAfter(last.before, last.new_start_time,
                      last.new_end_time) # None
     /\ last.new_start_time
            + DurationAfter(last.before, last.new_start_time,
                            last.new_end_time) > last.before.deadline)
    => (/\ last.result = "ok"
        /\ last.warnings = 1
        /\ task.start_time = last.new_start_time
        /\ task.end_time = EndAfter(last.before, last.new_start_time,
                                    last.new_end_time))

\* The same statement for the snapshot whose Assignment overrides
\* change_time (thread/task.py).
C10_HoldsInThreadSnapshot ==
    \/ (last.op = "change_time" /\ last.before.impl # "thread")
    \/ C10_DeadlineViolationIsSoft

\* The last step united two thread variables, with | or with |=.
IsUnion == last.op \in {"or", "ior"}

NoDuplicateIds(l) == \A i, j \in 1 .. Len(l) : l[i].uid = l[j].uid => i = j

\* C11: a union of two threads whose names differ fails with the
\* name-mismatch error, hands back no thread and leaves the task lists of
\* both threads as they were.
C11_NameMismatchRejected ==
    (IsUnion /\ last.before[last.x].name # last.before[last.y].name)
    => (/\ last.result
             = "TypeError: cannot find union: threads are not the same"
        /\ last.ret = NoThread
        /\ objs = last.before)

\* Both threads hold tasks, their names differ, and the union was refused.
C11_Witness ==
    /\ IsUnion
    /\ last.before[last.x].name # last.before[last.y].name
    /\ last.before[last.x].tasks # <<>>
    /\ last.before[last.y].tasks # <<>>
    /\ last.result # "ok"
    /\ objs = last.before

\* C12: a | b of two threads of one name is a thread whose tasks are the
\* union by id of a's and b's, one task per id, b's task where both hold
\* the id.
C12_UnionIsSetUnionById ==
    (last.op = "or" /\ last.before[last.x].name = last.before[last.y].name)
    => (/\ last.result = "ok"
        /\ last.ret # NoThread
        /\ TaskIdsOf(last.ret[1].tasks)
             = TaskIdsOf(last.before[last.x].tasks)
                 \cup TaskIdsOf(last.before[last.y].tasks)
        /\ NoDuplicateIds(last.ret[1].tasks)
        /\ \A i \in 1 .. Len(last.ret[1].tasks) :
              last.ret[1].tasks[i].uid
                  \in TaskIdsOf(last.before[last.y].tasks)
              => \E k \in 1 .. Len(last.before[last.y].tasks) :
                    last.ret[1].tasks[i] = last.before[last.y].tasks[k])

\* C13: the union of a thread with itself is a thread with the same ids,
\* and T |= T leaves T a thread with the same ids.
C13_UnionIdempotent ==
    (IsUnion /\ last.x = last.y)
    => (/\ last.result = "ok"
        /\ last.ret # NoThread
        /\ TaskIdsOf(last.ret[1].tasks)
             = TaskIdsOf(last.before[last.x].tasks))

\* C14: whatever add_task, union and from_json calls have been made, no
\* thread holds two tasks of one id.
C14_NoTwoTasksOfOneId ==
    \A x \in DOMAIN objs : NoDuplicateIds(objs[x].tasks)

\* C15: Thread.from_json(th.to_json()) gives back each task of th as the
\* same variant with the same id and equal fields, its times set or unset.
C15_ThreadCodecRoundTrip ==
    (last.op = "round_trip")
    => (/\ last.result = "ok"
        /\ Len(last.decoded[1].tasks) = 1
        /\ last.decoded[1].tasks[1] = last.original)

\* The ids of the tasks in a thread file, none when the file is missing.
IdsInFile(content) ==
    IF content = NoFile THEN {}
    ELSE {content[1].tasks[k].uid : k \in 1 .. Len(content[1].tasks)}

\* The tasks held by the threads ths, each with the name of its thread.
HeldBy(ths) ==
    UNION {{<<ths[i].name, ths[i].tasks[k]>> : k \in 1 .. Len(ths[i].tasks)} :
              i \in 1 .. Len(ths)}

\* C16: load_state replaces manager.threads by exactly the threads of the
\* files of threads/future: every thread in memory is the thread of one of
\* the files, and after a load that returns each file has given one thread;
\* nothing of the collection held before stays.
C16_LoadReplacesMemory ==
    (last.op = "load")
    => (/\ \A i \in 1 .. Len(threads) :
              \E n \in listdir(future) :
                  /\ threads[i].name = future[n][1].name
                  /\ threads[i].default_importance
                        = future[n][1].default_importance
                  /\ [k \in 1 .. Len(threads[i].tasks) |->
                          threads[i].tasks[k].uid]
                        = [k \in 1 .. Len(future[n][1].tasks) |->
                              future[n][1].tasks[k].uid]
        /\ Len(threads) <= Cardinality(listdir(future))
        /\ \A i, j \in 1 .. Len(threads) :
              threads[i].name = threads[j].name => i = j
        /\ last.result = "ok"
              => Len(threads) = Cardinality(listdir(future)))

\* A load returned with two threads read while memory held a thread with a
\* task that no file has.
C16_Witness ==
    /\ last.op = "load"
    /\ last.result = "ok"
    /\ Len(threads) = 2
    /\ \E i \in 1 .. Len(last.before) :
          \E k \in 1 .. Len(last.before[i].tasks) :
              last.before[i].tasks[k].uid
                  \notin IdsInFile(future[last.before[i].name])

\* C17: over save, load and refresh the past store only grows, and a save
\* adds to it the tasks of memory that are done.
C17_PastOnlyGrows ==
    (last.op \in {"save", "load", "refresh"})
    => (/\ \A n \in Names :
              /\ last.pastBefore[n] # NoFile => past[n] # NoFile
              /\ IdsInFile(last.pastBefore[n]) \subseteq IdsInFile(past[n])
        /\ last.op = "save"
              => \A h \in HeldBy(last.before) :
                    is_done(h[2], now) => h[2].uid \in IdsInFile(past[h[1]]))

\* C18: after save_state the future file of each thread in memory holds
\* exactly the pending tasks of that thread.
C18_FutureHoldsPending ==
    (last.op = "save")
    => \A i \in 1 .. Len(threads) :
          /\ future[threads[i].name] # NoFile
          /\ IdsInFile(future[threads[i].name])
                = {h[2].uid : h \in {g \in HeldBy(<<threads[i]>>) :
                                        ~is_done(g[2], now)}}

\* C19: after refresh_state a task that was done is out of memory and in
\* the past file of its thread, and a pending task is still in memory,
\* unchanged, and in the future file of its thread: no task is lost.
C19_RefreshMovesDoneKeepsPending ==
    (last.op = "refresh")
    => \A h \in HeldBy(last.before) :
          IF is_done(h[2], now)
          THEN /\ h \notin HeldBy(threads)
               /\ h[2].uid \in IdsInFile(past[h[1]])
          ELSE /\ h \in HeldBy(threads)
               /\ h[2].uid \in IdsInFile(future[h[1]])

\* C20: a crash while save_state writes a thread file never leaves that
\* file empty or half-written: each file is written atomically.
C20_CrashLeavesFileWhole ==
    (file.pc = "crashed") => file.content.state \notin {"empty", "partial"}

\* The thread files of dir that Thread.from_json decodes.
WellFormedIn(dir) ==
    {n \in listdir(dir) : _read_thread_file(dir[n]).result = "ok"}

\* C21: a future file that cannot be read or decoded does not abort
\* load_state: the thread of every other, well-formed file is in memory
\* after the call.
C21_CorruptRecordIsolated ==
    (last.op = "load")
    => \A n \in WellFormedIn(future) :
          \E i \in 1 .. Len(threads) :
              threads[i] = _read_thread_file(future[n]).thread

\* C25: the partition step of save_state gives, for each thread in memory,
\* one past thread and one future thread of its name and default
\* importance, with each task of the thread in exactly one of them: in the
\* past thread iff it is done.
C25_FilterPartitionsByDone ==
    (last.op = "save")
    => LET f == _filter_tasks(last.before, now) IN
       /\ Len(f.threads_past) = Len(last.before)
       /\ Len(f.threads_future) = Len(last.before)
       /\ \A i \in 1 .. Len(last.before) :
             /\ f.threads_past[i] # TheListItself
             /\ f.threads_future[i] # TheListItself
             /\ f.threads_past[i].name = last.before[i].name
             /\ f.threads_future[i].name = last.before[i].name
             /\ f.threads_past[i].default_importance
                   = last.before[i].default_importance
             /\ f.threads_future[i].default_importance
                   = last.before[i].default_importance
             /\ f.threads_past[i].tasks
                   = SelectSeq(last.before[i].tasks,
                               LAMBDA t : is_done(t, now))
             /\ f.threads_future[i].tasks
                   = SelectSeq(last.before[i].tasks,
                               LAMBDA t : ~is_done(t, now))

\* C27: save_state with a thread in memory that has done tasks and no past
\* file succeeds and creates the past file, holding exactly those tasks.
C27_SaveCreatesPastRecord ==
    (/\ last.op = "save"
     /\ \E i \in 1 .. Len(last.before) :
           /\ last.pastBefore[last.before[i].name] = NoFile
           /\ \E h \in HeldBy(<<last.before[i]>>) : is_done(h[2], now))
    => (/\ last.result = "ok"
        /\ \A i \in 1 .. Len(last.before) :
              (/\ last.pastBefore[last.before[i].name] = NoFile
               /\ \E h \in HeldBy(<<last.before[i]>>) : is_done(h[2], now))
              => (/\ past[last.before[i].name] # NoFile
                  /\ IdsInFile(past[last.before[i].name])
                        = {h[2].uid :
                              h \in {g \in HeldBy(<<last.before[i]>>) :
                                        is_done(g[2], now)}}))

\* C29: a load_state that fails, on a file it cannot read or decode, leaves
\* manager.threads as it was before the call.
C29_FailedLoadKeepsMemory ==
    (last.op = "load" /\ last.result # "ok") => threads = last.before

\* C23: a task with both times set has start_time <= end_time, in every
\* state reached by constructions and change_time calls, with or without a
\* new end time.
C23_StartNotAfterEnd ==
    (task # NoTask /\ task.start_time # None /\ task.end_time # None)
    => task.start_time <= task.end_time

\* A change_time with both times given moved a task that had both times set
\* to another, non-empty range.
C23_Witness ==
    /\ last.op = "change_time"
    /\ last.result = "ok"
    /\ last.before.impl = "threads"
    /\ last.new_end_time # None
    /\ last.before.end_time # None
    /\ task.start_time # last.before.start_time
    /\ task.start_time < task.end_time

\* C24: change_time(new_start) without an end time, on a task with both
\* times set, keeps the duration: start_time = new_start and end_time =
\* new_start + (old_end - old_start).
C24_DurationPreserved ==
    (/\ last.op = "change_time"
     /\ last.before.impl = "threads"
     /\ last.new_end_time = None
     /\ last.before.start_time # None
     /\ last.before.end_time # None)
    => (/\ last.result = "ok"
        /\ task.start_time = last.new_start_time
        /\ task.end_time = last.new_start_time
              + (last.before.end_time - last.before.start_time))

\* A task lasting some time was moved to another start without an end time.
C24_Witness ==
    /\ last.op = "change_time"
    /\ last.before.impl = "threads"
    /\ last.new_end_time = None
    /\ last.before.start_time # None
    /\ last.before.end_time # None
    /\ last.before.end_time > last.before.start_time
    /\ last.new_start_time # last.before.start_time
    /\ task.start_time = last.new_start_time

\* Each thread of ths has its done tasks in its past file and exactly its
\* pending tasks in its future file.
AllWritten(ths, pastDir, futureDir, clock) ==
    \A i \in 1 .. Len(ths) :
        /\ \A h \in HeldBy(<<ths[i]>>) :
              is_done(h[2], clock) => h[2].uid \in IdsInFile(pastDir[h[1]])
        /\ futureDir[ths[i].name] # NoFile
        /\ IdsInFile(futureDir[ths[i].name])
              = {h[2].uid : h \in {g \in HeldBy(<<ths[i]>>) :
                                      ~is_done(g[2], clock)}}

\* C26: in refresh_state, load_state starts only after save_state has
\* written every past and future file; if save_state fails, load_state is
\* not run and manager.threads is left as it was.
C26_LoadOnlyAfterSave ==
    (last.op = "refresh")
    => (/\ last.loaded
           => (/\ last.saved
               /\ AllWritten(last.before, past, future, now)
               /\ threads = load_state(last.before, last.order, future).threads)
        /\ ~last.saved
           => (/\ ~last.loaded
               /\ last.result # "ok"
               /\ threads = last.before))

\* A refresh whose save failed, with threads in memory that differ from
\* what the future files hold: memory is as it was.
C26_Witness ==
    /\ last.op = "refresh"
    /\ ~last.saved
    /\ last.before # <<>>
    /\ listdir(future) # {}
    /\ threads = last.before
    /\ threads # load_state(threads, last.order, future).threads

\* C30: save_state on a manager whose collection is empty leaves every past
\* and future file as it was, so that a load_state after it reads the same
\* threads as one before it.
C30_EmptySaveChangesNothing ==
    (last.op = "save" /\ last.before = <<>>)
    => (/\ last.result = "ok"
        /\ past = last.pastBefore
        /\ future = last.futureBefore
        /\ \A order \in Orders(listdir(future)) :
              load_state(threads, order, future)
                 = load_state(threads, order, last.futureBefore))

\* A manager without threads has saved over a store that holds a past file
\* and future files with tasks.
C30_Witness ==
    /\ last.op = "save"
    /\ last.before = <<>>
    /\ last.result = "ok"
    /\ \E n \in Names : IdsInFile(last.futureBefore[n]) # {}
    /\ \E n \in Names : last.pastBefore[n] # NoFile
    /\ future = last.futureBefore

\* The ids of the tasks a file content holds, none unless it is whole.
IdsInContent(content) ==
    IF content.state # "whole" THEN {}
    ELSE {content.data[1].tasks[k].uid :
             k \in 1 .. Len(content.data[1].tasks)}

\* C22: when two managers save done tasks of one thread at the same time,
\* the read-modify-write of its past file is mutually exclusive: under
\* every interleaving the file ends with the tasks it held and the done
\* tasks of both.
C22_NoLostUpdate ==
    (/\ \A m \in Managers : writers[m].pc = "done"
     /\ file.prior.state = "whole"
     /\ \A m \in Managers :
           writers[m].thread.name = file.prior.data[1].name)
    => (/\ file.content.state = "whole"
        /\ IdsInContent(file.prior) \subseteq IdsInContent(file.content)
        /\ \A m \in Managers :
              TaskIdsOf(writers[m].thread.tasks)
                 \subseteq IdsInContent(file.content))

====
